---- MODULE Spec2Model ----
(***************************************************************************)
(* Genetic-algorithm scheduler: src/main.py (operators and driver) and     *)
(* src/schedule.py (data model and fitness evaluation).                    *)
(*                                                                         *)
(* Scores are Python floats.  They are modelled as IEEE-754 binary64       *)
(* values with round-to-nearest-even addition, subtraction and division,   *)
(* because several statements about the scores ("exactly 0.5 less", "is    *)
(* exactly 0") depend on the rounding of the accumulation.                 *)
(***************************************************************************)
EXTENDS Integers, Sequences, FiniteSets, TLC

(***************************************************************************)
(* binary64 arithmetic.  A float is <<sign, exp, hi, lo>> and stands for   *)
(* sign * (hi * 2^27 + lo) * 2^exp, with the 53-bit significand            *)
(* hi * 2^27 + lo in [2^52, 2^53); zero is <<0, 0, 0, 0>>.  Significands   *)
(* are kept in two limbs <<hi, lo>> of 27 bits.  Infinities, NaN and       *)
(* subnormals do not occur for the magnitudes the program computes.        *)
(***************************************************************************)
Limb == 2^27

\* F applied to the values of its arguments.  Python evaluates the arguments
\* of a call, and the right-hand side of an assignment, once; Call1..Call3
\* bind the values before F is expanded.
Call1(F(_), x) == CHOOSE r \in {F(u) : u \in {x}} : TRUE

Call2(F(_, _), x, y) == CHOOSE r \in {F(u, v) : u \in {x}, v \in {y}} : TRUE

Call3(F(_, _, _), x, y, z) ==
    CHOOSE r \in {F(u, v, w) : u \in {x}, v \in {y}, w \in {z}} : TRUE

Call4(F(_, _, _, _), x, y, z, t) ==
    CHOOSE r \in {F(u, v, w, b) : u \in {x}, v \in {y}, w \in {z}, b \in {t}} : TRUE

Pow2(k) == 2^k

\* the number of bits of n, for 0 <= n < 2^30
BitLen(n) == CHOOSE k \in 0..30 : n < Pow2(k) /\ (k = 0 \/ Pow2(k - 1) <= n)

WBitLen(a) == IF a[1] > 0 THEN 27 + BitLen(a[1]) ELSE BitLen(a[2])

WLess(a, b) == a[1] < b[1] \/ (a[1] = b[1] /\ a[2] < b[2])

WAdd(a, b) ==
    LET lo == a[2] + b[2]
    IN  <<a[1] + b[1] + (lo \div Limb), lo % Limb>>

\* a - b for a >= b
WSub(a, b) ==
    IF a[2] >= b[2] THEN <<a[1] - b[1], a[2] - b[2]>>
    ELSE <<a[1] - b[1] - 1, a[2] + Limb - b[2]>>

\* a * 2^d, for results below 2^57
WShl(a, d) ==
    IF d = 0 THEN a
    ELSE IF d >= 27 THEN <<a[2] * Pow2(d - 27), 0>>
    ELSE <<a[1] * Pow2(d) + (a[2] \div Pow2(27 - d)), (a[2] % Pow2(27 - d)) * Pow2(d)>>

\* floor(a / 2^d), with the bits shifted out OR-ed into bit 0 (sticky bit)
WShrSticky(a, d) ==
    IF d = 0 THEN a
    ELSE IF d >= 57 THEN <<0, 1>>
    ELSE IF d >= 27 THEN
         LET k    == d - 27
             q    == a[1] \div Pow2(k)
             lost == a[2] # 0 \/ a[1] % Pow2(k) # 0
         IN  <<0, IF lost /\ q % 2 = 0 THEN q + 1 ELSE q>>
    ELSE LET lo   == (a[2] \div Pow2(d)) + (a[1] % Pow2(d)) * Pow2(27 - d)
             lost == a[2] % Pow2(d) # 0
         IN  <<a[1] \div Pow2(d), IF lost /\ lo % 2 = 0 THEN lo + 1 ELSE lo>>

FZero == <<0, 0, 0, 0>>

Mant(x) == <<x[3], x[4]>>

\* sig is a 56-bit significand (53 bits, then guard, round and sticky bits)
\* of the value sign * sig * 2^e: round to nearest, ties to even.
Round(sign, e, sig) ==
    LET m   == <<sig[1] \div 8, (sig[2] \div 8) + (sig[1] % 8) * Pow2(24)>>
        r   == sig[2] % 8
        up  == r > 4 \/ (r = 4 /\ m[2] % 2 = 1)
        m1  == IF up THEN WAdd(m, <<0, 1>>) ELSE m
    IN  IF m1[1] = Pow2(26) THEN <<sign, e + 4, Pow2(25), 0>>
        ELSE <<sign, e + 3, m1[1], m1[2]>>

FRound(sign, e, sig) == Call3(Round, sign, e, sig)

\* normalise a non-zero significand below 2^57 to 56 bits, then round
NormRound(sign, e, sig, bl) ==
    IF bl = 57 THEN FRound(sign, e + 1, WShrSticky(sig, 1))
    ELSE FRound(sign, e - (56 - bl), WShl(sig, 56 - bl))

Normalise(sign, e, sig) == Call4(NormRound, sign, e, sig, WBitLen(sig))

FNormRound(sign, e, sig) == Call3(Normalise, sign, e, sig)

\* |x| < |y| for non-zero x, y
MagLess(x, y) == x[2] < y[2] \/ (x[2] = y[2] /\ WLess(Mant(x), Mant(y)))

FNeg(x) == <<0 - x[1], x[2], x[3], x[4]>>

FAbs(x) == <<x[1] * x[1], x[2], x[3], x[4]>>

\* x + y
Add(x, y) ==
    IF x[1] = 0 THEN y
    ELSE IF y[1] = 0 THEN x
    ELSE LET a == IF MagLess(x, y) THEN y ELSE x
             b == IF MagLess(x, y) THEN x ELSE y
             A == WShl(Mant(a), 3)
             B == WShrSticky(WShl(Mant(b), 3), a[2] - b[2])
         IN  IF a[1] = b[1] THEN FNormRound(a[1], a[2] - 3, WAdd(A, B))
             ELSE IF A = B THEN FZero
             ELSE FNormRound(a[1], a[2] - 3, WSub(A, B))

FAdd(x, y) == Call2(Add, x, y)

\* x - y
FSub(x, y) == FAdd(x, FNeg(y))

\* x < y
Less(x, y) ==
    IF x[1] # y[1] THEN x[1] < y[1]
    ELSE IF x[1] = 0 THEN FALSE
    ELSE IF x[1] = 1 THEN MagLess(x, y)
    ELSE MagLess(y, x)

FLess(x, y) == Call2(Less, x, y)

\* one step of restoring division by m: qr is <<quotient, remainder>>
DivStep(qr, m) ==
    IF WLess(qr[2], m) THEN <<WAdd(qr[1], qr[1]), WAdd(qr[2], qr[2])>>
    ELSE <<WAdd(WAdd(qr[1], qr[1]), <<0, 1>>), WAdd(WSub(qr[2], m), WSub(qr[2], m))>>

\* k steps of restoring division by m
RECURSIVE DivLoop(_, _, _)
DivLoop(qr, m, k) == IF k = 0 THEN qr ELSE Call3(DivLoop, DivStep(qr, m), m, k - 1)

\* the 56-bit quotient with a non-zero remainder OR-ed into its sticky bit
Quotient(qr) ==
    IF qr[2] # <<0, 0>> /\ qr[1][2] % 2 = 0 THEN <<qr[1][1], qr[1][2] + 1>> ELSE qr[1]

\* x / y for y # 0 (Python raises ZeroDivisionError when y = 0)
Div(x, y) ==
    IF x[1] = 0 THEN FZero
    ELSE IF Mant(y) = <<Pow2(25), 0>>
    THEN \* y is a power of two: the quotient is exact
         <<x[1] * y[1], x[2] - y[2] - 52, x[3], x[4]>>
    ELSE LET small == WLess(Mant(x), Mant(y))
             r0    == IF small THEN WAdd(Mant(x), Mant(x)) ELSE Mant(x)
         IN  FRound(x[1] * y[1], x[2] - y[2] - (IF small THEN 56 ELSE 55),
                    Call1(Quotient, DivLoop(<<<<0, 0>>, r0>>, Mant(y), 56)))

FDiv(x, y) == Call2(Div, x, y)

\* float(n) for an integer |n| < 2^26
FromInt(n) ==
    IF n = 0 THEN FZero
    ELSE LET a == IF n < 0 THEN 0 - n ELSE n
             bl == BitLen(a)
         IN  <<IF n < 0 THEN -1 ELSE 1, bl - 53, a * Pow2(26 - bl), 0>>

\* the float denoted by the decimal literal n/d (correctly rounded)
Dec(n, d) == FDiv(FromInt(n), FromInt(d))

(***************************************************************************)
(* Data model (src/schedule.py) and the catalogs of a run.                 *)
(***************************************************************************)
\* None, and the value of a local that is not assigned yet
None == <<>>

\* ScheduleItem(activity, room, time, facilitator)
ScheduleItem(activity, room, time, facilitator) ==
    [activity |-> activity, room |-> room, time |-> time, facilitator |-> facilitator]

\* Schedule(items): the score is None until calculate_fitness is called
Schedule(items) == [items |-> items, fitness_score |-> None]

\* Activity(name, enrollment, preferred_facilitators, other_facilitators)
Activity(name, enrollment, preferred_facilitators, other_facilitators) ==
    [name |-> name, enrollment |-> enrollment,
     preferred_facilitators |-> preferred_facilitators,
     other_facilitators |-> other_facilitators]

\* Room(name, capacity)
Room(name, capacity) == [name |-> name, capacity |-> capacity]

\* entries of the catalogs built in run_genetic_algorithm
SLA100A == Activity("SLA100A", 50, {"Glen", "Lock", "Banks", "Zeldin"}, {"Numen", "Richards"})

SLA191A == Activity("SLA191A", 50, {"Glen", "Lock", "Banks", "Zeldin"}, {"Numen", "Richards"})

SLA304 == Activity("SLA304", 25, {"Glen", "Banks", "Tyler"},
                   {"Numen", "Singer", "Shaw", "Richards", "Uther", "Zeldin"})

SLA394 == Activity("SLA394", 20, {"Tyler", "Singer"}, {"Richards", "Zeldin"})

Roman216 == Room("Roman 216", 30)

Loft206 == Room("Loft 206", 75)

Beach301 == Room("Beach 301", 75)

\* the four catalogs of a run: activities and rooms in dict order, times
\* and facilitators as lists
Catalog(activities, rooms, times, facilitators) ==
    [activities |-> activities, rooms |-> rooms, times |-> times,
     facilitators |-> facilitators]

\* activities[name] and rooms[name]
ActivityNamed(cat, name) ==
    CHOOSE a \in {cat.activities[i] : i \in DOMAIN cat.activities} : a.name = name

RoomNamed(cat, name) ==
    CHOOSE r \in {cat.rooms[i] : i \in DOMAIN cat.rooms} : r.name = name

Range(seq) == {seq[i] : i \in DOMAIN seq}

(***************************************************************************)
(* Schedule.calculate_fitness (src/schedule.py).                           *)
(* Adjustments lists, in execution order, the amounts that the method adds *)
(* to score, each as <<check, hundredths>>; calculate_fitness accumulates  *)
(* them in binary64, as the "score += c" / "score -= c" statements do.     *)
(***************************************************************************)
time_slots == <<"10 AM", "11 AM", "12 PM", "1 PM", "2 PM", "3 PM">>

\* time_slots.index(t)
TimeIndex(t) == (CHOOSE i \in DOMAIN time_slots : time_slots[i] = t) - 1

Abs(n) == IF n < 0 THEN 0 - n ELSE n

IsSLA101(item) == item.activity \in {"SLA100A", "SLA100B"}

IsSLA191(item) == item.activity \in {"SLA191A", "SLA191B"}

\* "Roman" in room or "Beach" in room
InRomanOrBeach(room) == room \in {"Roman 216", "Roman 201", "Beach 201", "Beach 301"}

facilitator_counts(items, f) == Cardinality({i \in DOMAIN items : items[i].facilitator = f})

facilitator_time_counts(items, f, t) ==
    Cardinality({i \in DOMAIN items : items[i].facilitator = f /\ items[i].time = t})

RECURSIVE TimesOf(_)
TimesOf(items) ==
    IF items = <<>> THEN <<>> ELSE <<Head(items).time>> \o TimesOf(Tail(items))

sla101_times(items) == TimesOf(SelectSeq(items, IsSLA101))

sla191_times(items) == TimesOf(SelectSeq(items, IsSLA191))

\* the set time_room_pairs when the loop reaches item i
time_room_pairs(items, i) == {<<items[j].time, items[j].room>> : j \in 1..(i - 1)}

\* fault variant: the pair is looked up among all other items, not only the
\* earlier ones
CollidesWithAny(items, i) ==
    \E j \in DOMAIN items :
        j # i /\ <<items[j].time, items[j].room>> = <<items[i].time, items[i].room>>

\* "if time_room_pair in time_room_pairs" for item i
Collides(items, i) == <<items[i].time, items[i].room>> \in time_room_pairs(items, i)

CollisionAdj(items, i) == IF Collides(items, i) THEN << <<"room_time", -50>> >> ELSE <<>>

RoomSizeAdj(item, cat) ==
    LET capacity   == RoomNamed(cat, item.room).capacity
        enrollment == ActivityNamed(cat, item.activity).enrollment
    IN  IF capacity < enrollment THEN << <<"room_size", -50>> >>
        ELSE IF capacity > 6 * enrollment THEN << <<"room_size", -40>> >>
        ELSE IF capacity > 3 * enrollment THEN << <<"room_size", -20>> >>
        ELSE << <<"room_size", 30>> >>

FacilitatorAdj(item, cat) ==
    IF item.facilitator \in ActivityNamed(cat, item.activity).preferred_facilitators THEN << <<"facilitator", 50>> >>
    ELSE IF item.facilitator \in ActivityNamed(cat, item.activity).other_facilitators THEN << <<"facilitator", 20>> >>
    ELSE << <<"facilitator", -10>> >>

LoadAdj(items, item) ==
    LET at_time == facilitator_time_counts(items, item.facilitator, item.time)
        total   == facilitator_counts(items, item.facilitator)
    IN  (IF at_time = 1 THEN << <<"load", 20>> >> ELSE IF at_time > 1 THEN << <<"load", -20>> >> ELSE <<>>)
        \o (IF total > 4 THEN << <<"load", -50>> >>
            ELSE IF total < 3 /\ item.facilitator # "Tyler" THEN << <<"load", -40>> >>
            ELSE <<>>)

\* the adjustments of items i.. in the per-item loop
RECURSIVE ItemAdj(_, _, _)
ItemAdj(items, cat, i) ==
    IF i > Len(items) THEN <<>>
    ELSE CollisionAdj(items, i) \o RoomSizeAdj(items[i], cat) \o FacilitatorAdj(items[i], cat)
         \o LoadAdj(items, items[i]) \o ItemAdj(items, cat, i + 1)

\* "SLA101 sections timing" / "SLA191 sections timing"
SectionAdj(times) ==
    IF Len(times) = 2
    THEN IF times[1] = times[2] THEN << <<"sections", -50>> >>
         ELSE IF Abs(TimeIndex(times[1]) - TimeIndex(times[2])) > 4 THEN << <<"sections", 50>> >>
         ELSE <<>>
    ELSE <<>>

\* next(item for item in self.items if <group> and item.time == t)
FirstAt(items, InGroup(_), t) ==
    items[CHOOSE i \in DOMAIN items :
            /\ InGroup(items[i]) /\ items[i].time = t
            /\ \A j \in 1..(i - 1) : ~(InGroup(items[j]) /\ items[j].time = t)]

PairAdj(items, t101, t191) ==
    LET time_diff == Abs(TimeIndex(t101) - TimeIndex(t191))
    IN  IF time_diff = 1
        THEN << <<"consecutive", 50>> >> \o (IF InRomanOrBeach(FirstAt(items, IsSLA101, t101).room)
                           # InRomanOrBeach(FirstAt(items, IsSLA191, t191).room)
                        THEN << <<"consecutive", -40>> >> ELSE <<>>)
        ELSE IF time_diff = 2 THEN << <<"consecutive", 25>> >>
        ELSE IF time_diff = 0 THEN << <<"consecutive", -25>> >>
        ELSE <<>>

\* "Consecutive sections checks": pairs (a, b) from position <<a, b>> on
RECURSIVE ConsecutiveAdj(_, _, _)
ConsecutiveAdj(items, a, b) ==
    LET t101 == sla101_times(items)
        t191 == sla191_times(items)
    IN  IF a > Len(t101) THEN <<>>
        ELSE IF b > Len(t191) THEN ConsecutiveAdj(items, a + 1, 1)
        ELSE PairAdj(items, t101[a], t191[b]) \o ConsecutiveAdj(items, a, b + 1)

Adjustments(items, cat) ==
    ItemAdj(items, cat, 1)
    \o SectionAdj(sla101_times(items)) \o SectionAdj(sla191_times(items))
    \o ConsecutiveAdj(items, 1, 1)

\* the float of the literal h/100; the literals of the program are tabulated
Literals == [h \in {-50, -40, -25, -20, -10, 1, 20, 25, 30, 50, 100} |-> Dec(h, 100)]

Lit(h) == IF h \in DOMAIN Literals THEN Literals[h] ELSE Dec(h, 100)

\* score after the adjustments adj[k..] have been added to it
RECURSIVE Accumulate(_, _, _)
Accumulate(score, adj, k) ==
    IF k > Len(adj) \/ score[1] > 1 THEN score
    ELSE Accumulate(FAdd(score, Lit(adj[k][2])), adj, k + 1)

\* the value calculate_fitness stores in fitness_score and returns
calculate_fitness(items, cat) == Accumulate(FZero, Adjustments(items, cat), 1)

(***************************************************************************)
(* The random source.  random.random() is represented by the two ends of   *)
(* its range, 0.0 and 1 - 2^-53, which give both outcomes of               *)
(* "random.random() < rate" whenever both are possible.  When free is      *)
(* FALSE the generator is pinned to the top of each range (see RandomFree).*)
(***************************************************************************)
TopRandom == <<1, -53, Pow2(26) - 1, Limb - 1>>

\* random.random()
RandomFloat(free) == IF free THEN {FZero, TopRandom} ELSE {TopRandom}

\* random.randint(a, b)
RandInt(a, b, free) == IF free THEN a..b ELSE {b}

\* random.choice(seq)
Choice(seq, free) == IF free THEN Range(seq) ELSE {seq[Len(seq)]}

\* list(rooms.keys())
RoomNames(cat) == [i \in DOMAIN cat.rooms |-> cat.rooms[i].name]

(***************************************************************************)
(* random_schedule and initial_population (src/main.py).                   *)
(***************************************************************************)
\* the items random_schedule can build for the activity at position i
RandomItems(cat, i, free) ==
    {ScheduleItem(cat.activities[i].name, r, t, f) :
        f \in Choice(cat.facilitators, free),
        r \in Choice(RoomNames(cat), free),
        t \in Choice(cat.times, free)}

\* the item lists random_schedule can return
random_schedule(cat, free) ==
    {items \in [DOMAIN cat.activities -> UNION {RandomItems(cat, i, free) : i \in DOMAIN cat.activities}] :
        \A i \in DOMAIN cat.activities : items[i] \in RandomItems(cat, i, free)}

\* the catalogs of the bounded runs.  CatVaried is cut from the catalog of
\* run_genetic_algorithm; CatSingle and CatSingleTiny are catalogs with two
\* activities, one room that fits both, one time slot and one facilitator
\* preferred by both; CatOps is the catalog of the operator calls.
CatVaried == Catalog(<<SLA304, SLA394>>, <<Loft206>>, <<"10 AM">>, <<"Lock", "Tyler">>)

CatSingle == Catalog(<<SLA304, SLA394>>, <<Roman216>>, <<"10 AM">>, <<"Tyler">>)

CatSingleTiny ==
    Catalog(<<Activity("ACT50", 50, {"Tyler"}, {}), Activity("ACT05", 5, {"Tyler"}, {})>>,
            <<Room("Hall 60", 60)>>, <<"10 AM">>, <<"Tyler">>)

CatOps == Catalog(<<SLA100A, SLA191A, SLA304>>, <<Loft206, Beach301>>,
                  <<"10 AM", "11 AM">>, <<"Tyler">>)

Catalogs == {CatVaried, CatSingle, CatSingleTiny, CatOps}

\* calculate_fitness, tabulated for the schedules random_schedule can build
\* (f @@ <<>> is f with its values computed)
FitnessTable ==
    [cat \in Catalogs |->
        [items \in random_schedule(cat, TRUE) |-> calculate_fitness(items, cat)] @@ <<>>] @@ <<>>

Fitness(items, cat) ==
    IF cat \in DOMAIN FitnessTable /\ items \in DOMAIN FitnessTable[cat]
    THEN FitnessTable[cat][items]
    ELSE calculate_fitness(items, cat)

\* schedule.calculate_fitness(activities, rooms): the scored schedule
Scored(schedule, cat) ==
    [schedule EXCEPT !.fitness_score = Fitness(schedule.items, cat)]

\* the populations initial_population can return
initial_population(cat, n, free) ==
    IF n <= 0 THEN {<<>>}
    ELSE [1..n -> {Scored(Schedule(items), cat) : items \in random_schedule(cat, free)}]

(***************************************************************************)
(* select_parents, crossover and mutate (src/main.py).                     *)
(***************************************************************************)
\* insert s behind the entries of sorted whose score is not below its own
RECURSIVE InsertDesc(_, _)
InsertDesc(sorted, s) ==
    IF sorted = <<>> THEN <<s>>
    ELSE IF FLess(Head(sorted).fitness_score, s.fitness_score) THEN <<s>> \o sorted
    ELSE <<Head(sorted)>> \o Call2(InsertDesc, Tail(sorted), s)

\* sorted(generation, key=lambda s: s.fitness_score, reverse=True), stable
RECURSIVE SortedDesc(_, _)
SortedDesc(generation, k) ==
    IF k = 0 THEN <<>> ELSE Call2(InsertDesc, SortedDesc(generation, k - 1), generation[k])

IndexError == "IndexError"

\* return sorted_generation[0], sorted_generation[1]
FirstTwo(sorted_generation) ==
    IF Len(sorted_generation) < 2 THEN IndexError
    ELSE <<sorted_generation[1], sorted_generation[2]>>

select_parents(generation) == Call1(FirstTwo, SortedDesc(generation, Len(generation)))

\* fault variant: the parents are taken in the wrong order
crossover_swapped(first, second, crossover_point) ==
    Schedule(SubSeq(second.items, 1, crossover_point)
             \o SubSeq(first.items, crossover_point + 1, Len(first.items)))

\* crossover with random.randint(0, len(first.items)) = crossover_point
crossover(first, second, crossover_point) ==
    Schedule(SubSeq(first.items, 1, crossover_point)
             \o SubSeq(second.items, crossover_point + 1, Len(second.items)))

\* the outcomes of the random calls mutate makes for one item
ItemDraws(cat, free) ==
    {[u |-> u, mutation_type |-> "room", value |-> v] :
        u \in RandomFloat(free), v \in Choice(RoomNames(cat), free)}
    \cup {[u |-> u, mutation_type |-> "time", value |-> v] :
        u \in RandomFloat(free), v \in Choice(cat.times, free)}
    \cup {[u |-> u, mutation_type |-> "facilitator", value |-> v] :
        u \in RandomFloat(free), v \in Choice(cat.facilitators, free)}

\* fault variant: the comparison with the rate is reversed
MutateItemAbove(item, rate, draw) ==
    IF FLess(rate, draw.u)
    THEN IF draw.mutation_type = "room"
         THEN ScheduleItem(item.activity, draw.value, item.time, item.facilitator)
         ELSE IF draw.mutation_type = "time"
         THEN ScheduleItem(item.activity, item.room, draw.value, item.facilitator)
         ELSE ScheduleItem(item.activity, item.room, item.time, draw.value)
    ELSE item

\* one iteration of the loop of mutate
MutateItem(item, rate, draw) ==
    IF FLess(draw.u, rate)
    THEN IF draw.mutation_type = "room"
         THEN ScheduleItem(item.activity, draw.value, item.time, item.facilitator)
         ELSE IF draw.mutation_type = "time"
         THEN ScheduleItem(item.activity, item.room, draw.value, item.facilitator)
         ELSE ScheduleItem(item.activity, item.room, item.time, draw.value)
    ELSE item

\* fault variant: the loop skips the first item
mutate_skipping(schedule, rate, draws) ==
    Schedule(SubSeq([i \in DOMAIN schedule.items |->
                        MutateItem(schedule.items[i], rate, draws[i])],
                    2, Len(schedule.items)))

mutate(schedule, rate, draws) ==
    Schedule([i \in DOMAIN schedule.items |-> MutateItem(schedule.items[i], rate, draws[i])])

(***************************************************************************)
(* run_genetic_algorithm (src/main.py).                                    *)
(***************************************************************************)
VARIABLES
    catalog,                \* activities, rooms, times, facilitators
    population_size,        \* parameter
    initial_mutation_rate,  \* parameter
    pc,                     \* "start", "loop", "returned", "raised"; "ops", "called"
    population,
    current_mutation_rate,
    best_fitness_achieved,
    generation,
    avg_fitness_history,
    error,                  \* the exception raised, if any
    call,                   \* the operator call made (operator runs)
    ret                     \* the value returned

vars == <<catalog, population_size, initial_mutation_rate, population,
          current_mutation_rate, best_fitness_achieved, generation,
          avg_fitness_history, error, call, ret, pc>>

\* float('-inf'): below every float in FLess
NegInf == <<-2, 0, 0, 0>>

\* no exception has been raised
NoError == "NoError"

ValueError == "ValueError"

ZeroDivisionError == "ZeroDivisionError"

\* "if generation >= 100" and avg_fitness_history[-100]
ConvergenceStart == 100

Lookback == 100

\* In the bounded runs the random source is free in the generations whose
\* index is a multiple of FreePeriod and pinned in the others.
FreePeriod == 99

RandomFree(g) == g % FreePeriod = 0

\* the bounded runs stop after this many generations (no run gets there)
MaxGenerations == 400

PopulationSizes == {0, 1, 2}

\* initial_mutation_rate: 0.0, 0.01 (the value of __main__) and 1.0
InitialRates == {FZero, Lit(1), Lit(100)}

\* the runs: (catalog, population_size, initial_mutation_rate)
Runs ==
    ({CatVaried} \X PopulationSizes \X InitialRates)
    \cup ({CatSingle, CatSingleTiny} \X {4} \X InitialRates)

Init ==
    /\ \E run \in Runs :
          /\ catalog = run[1]
          /\ population_size = run[2]
          /\ initial_mutation_rate = run[3]
    /\ pc = "start"
    /\ population = <<>>
    /\ current_mutation_rate = None
    /\ best_fitness_achieved = None
    /\ generation = 0
    /\ avg_fitness_history = <<>>
    /\ error = NoError
    /\ call = None
    /\ ret = None

\* lines 153-158: initial population and control state
Initialize ==
    /\ pc = "start"
    /\ pc' = "loop"
    /\ population' \in initial_population(catalog, population_size, TRUE)
    /\ current_mutation_rate' = initial_mutation_rate
    /\ best_fitness_achieved' = NegInf
    /\ generation' = 0
    /\ avg_fitness_history' = <<>>
    /\ UNCHANGED <<catalog, population_size, initial_mutation_rate, error, call, ret>>

\* fault variant: the inner loop appends no child, so the new population
\* never reaches population_size
OffspringNone(parents, cat, rate, free) == {}

\* the children one pass of the inner loop can append: crossover of the two
\* parents, mutation, scoring
Offspring(parents, cat, rate, free) ==
    {Scored(child, cat) :
        child \in {mutate(crossover(parents[1], parents[2], c), rate, d) :
                      c \in RandInt(0, Len(parents[1].items), free),
                      d \in [DOMAIN parents[1].items -> ItemDraws(cat, free)]}}

\* max keeps the first of two equal values
Max2(m, f) == IF FLess(m, f) THEN f ELSE m

\* max(current_fitness)
RECURSIVE MaxFitness(_, _)
MaxFitness(fitness, k) ==
    IF k = 1 THEN fitness[1] ELSE Call2(Max2, MaxFitness(fitness, k - 1), fitness[k])

\* sum(current_fitness)
RECURSIVE SumFitness(_, _)
SumFitness(fitness, k) ==
    IF k = 0 THEN FZero ELSE FAdd(SumFitness(fitness, k - 1), fitness[k])

\* avg_fitness_history[-k]
FromEnd(history, k) == history[Len(history) - k + 1]

\* fault variant: the sum of the two means instead of their difference
ImprovementOfSum(history) ==
    FDiv(FAdd(FromEnd(history, 1), FromEnd(history, Lookback)),
         FAbs(FromEnd(history, Lookback)))

\* improvement = (history[-1] - history[-100]) / abs(history[-100])
Improvement(history) ==
    FDiv(FSub(FromEnd(history, 1), FromEnd(history, Lookback)),
         FAbs(FromEnd(history, Lookback)))

\* "if improvement < 0.01"
Converged(history) == FLess(Improvement(history), Lit(1))

\* fault variant: >= instead of >
ImprovedOrEqual(best, current_best_fitness) == ~FLess(current_best_fitness, best)

\* "if current_best_fitness > best_fitness_achieved"
Improved(best, current_best_fitness) == FLess(best, current_best_fitness)

\* max(population, key=lambda x: x.fitness_score): the first of the best
BestOf(pop) ==
    pop[CHOOSE i \in DOMAIN pop :
          /\ \A j \in DOMAIN pop : ~FLess(pop[i].fitness_score, pop[j].fitness_score)
          /\ \A j \in 1..(i - 1) : FLess(pop[j].fitness_score, pop[i].fitness_score)]

\* lines 178-205 and 207: statistics, rate adaptation and convergence check
\* for the new population
Statistics(new_population) ==
    \E current_fitness \in {[i \in DOMAIN new_population |-> new_population[i].fitness_score]} :
    \E current_best_fitness \in {MaxFitness(current_fitness, Len(current_fitness))},
       current_avg_fitness \in {FDiv(SumFitness(current_fitness, Len(current_fitness)),
                                     FromInt(Len(current_fitness)))} :
    \E history \in {Append(avg_fitness_history, current_avg_fitness)},
       improved \in {Improved(best_fitness_achieved, current_best_fitness)} :
        /\ population' = new_population
        /\ avg_fitness_history' = history
        /\ best_fitness_achieved' =
              IF improved THEN current_best_fitness ELSE best_fitness_achieved
        /\ current_mutation_rate' =
              IF improved THEN FDiv(current_mutation_rate, FromInt(2))
              ELSE current_mutation_rate
        /\ IF generation >= ConvergenceStart /\ FromEnd(history, Lookback) = FZero
           THEN /\ pc' = "raised"
                /\ error' = ZeroDivisionError
                /\ UNCHANGED <<generation, ret>>
           ELSE IF generation >= ConvergenceStart /\ Converged(history)
           THEN /\ pc' = "returned"
                /\ ret' = BestOf(new_population)
                /\ UNCHANGED <<generation, error>>
           ELSE /\ pc' = "loop"
                /\ generation' = generation + 1
                /\ UNCHANGED <<error, ret>>

\* one pass of "while True" (lines 160-205)
Generation ==
    /\ pc = "loop"
    /\ generation < MaxGenerations
    /\ IF population_size <= 0
       THEN \* the inner loop is skipped and max([]) raises
            /\ population' = <<>>
            /\ pc' = "raised"
            /\ error' = ValueError
            /\ UNCHANGED <<current_mutation_rate, best_fitness_achieved, generation,
                           avg_fitness_history, ret>>
       ELSE \E parents \in {select_parents(population)} :
            IF parents = IndexError
            THEN /\ pc' = "raised"
                 /\ error' = IndexError
                 /\ UNCHANGED <<population, current_mutation_rate, best_fitness_achieved,
                                generation, avg_fitness_history, ret>>
            ELSE \E new_population \in
                     [1..population_size ->
                         Offspring(parents, catalog, current_mutation_rate,
                                   RandomFree(generation))] :
                     Statistics(new_population)
    /\ UNCHANGED <<catalog, population_size, initial_mutation_rate, call>>

Next == Initialize \/ Generation

Spec == Init /\ [][Next]_vars

\* the loop of run_genetic_algorithm runs without suspension points
LiveSpec == Spec /\ WF_vars(Initialize) /\ WF_vars(Generation)

(***************************************************************************)
(* Operator runs: one call of crossover, mutate or calculate_fitness on    *)
(* inputs drawn from the catalog CatOps.                                   *)
(***************************************************************************)
OpRates == InitialRates

OpInit ==
    /\ catalog = CatOps
    /\ population_size = 0
    /\ initial_mutation_rate = None
    /\ pc = "ops"
    /\ population = <<>>
    /\ current_mutation_rate = None
    /\ best_fitness_achieved = None
    /\ generation = 0
    /\ avg_fitness_history = <<>>
    /\ error = NoError
    /\ call = None
    /\ ret = None

OpUnchanged ==
    /\ pc' = "called"
    /\ UNCHANGED <<catalog, population_size, initial_mutation_rate, population,
                   current_mutation_rate, best_fitness_achieved, generation,
                   avg_fitness_history, error>>

\* child = crossover(first, second)
CallCrossover ==
    /\ pc = "ops"
    /\ \E f \in random_schedule(catalog, TRUE), g \in random_schedule(catalog, TRUE) :
         \E c \in RandInt(0, Len(f), TRUE) :
            /\ call' = [op |-> "crossover", first |-> Schedule(f), second |-> Schedule(g),
                        crossover_point |-> c]
            /\ ret' = crossover(Schedule(f), Schedule(g), c)
    /\ OpUnchanged

\* mutated = mutate(schedule, rooms, times, facilitators, rate)
CallMutate ==
    /\ pc = "ops"
    /\ \E items \in random_schedule(catalog, TRUE), rate \in OpRates :
         \E d \in [DOMAIN items -> ItemDraws(catalog, TRUE)] :
            /\ call' = [op |-> "mutate", schedule |-> Schedule(items), rate |-> rate,
                        draws |-> d]
            /\ ret' = mutate(Schedule(items), rate, d)
    /\ OpUnchanged

\* item i of items moved to the pair (time, room)
Moved(items, i, time, room) ==
    [items EXCEPT ![i] = ScheduleItem(items[i].activity, room, time, items[i].facilitator)]

\* calculate_fitness on a schedule and on the schedule with one item moved
CallFitness ==
    /\ pc = "ops"
    /\ \E items \in random_schedule(catalog, TRUE), i \in DOMAIN catalog.activities :
         \E room \in Range(RoomNames(catalog)), time \in Range(catalog.times) :
            /\ call' = [op |-> "calculate_fitness", items |-> items, index |-> i,
                        moved |-> Moved(items, i, time, room)]
            /\ ret' = <<calculate_fitness(items, catalog),
                        calculate_fitness(Moved(items, i, time, room), catalog)>>
    /\ OpUnchanged

OpNext == CallCrossover \/ CallMutate \/ CallFitness

OpSpec == OpInit /\ [][OpNext]_vars

(***************************************************************************)
(* Properties.                                                             *)
(***************************************************************************)
Running == pc \in {"loop", "returned", "raised"}

Scores(pop) == [i \in DOMAIN pop |-> pop[i].fitness_score]

Half(x) == FDiv(x, FromInt(2))

\* C1: in every generation step the mutation rate stays the same or is
\* halved, it is halved exactly when the best fitness of the new generation
\* strictly exceeds best_fitness_achieved, and it never increases.
C1_RateNonIncreasing ==
    [][pc = "loop" =>
         /\ ~FLess(current_mutation_rate, current_mutation_rate')
         /\ current_mutation_rate' \in {current_mutation_rate, Half(current_mutation_rate)}
         /\ (population' # <<>> /\ error' \notin {IndexError, ValueError}) =>
               IF FLess(best_fitness_achieved, MaxFitness(Scores(population'), Len(population')))
               THEN current_mutation_rate' = Half(current_mutation_rate)
               ELSE current_mutation_rate' = current_mutation_rate]_vars

\* a positive rate that has been halved at generation 0 and again later
C1_Witness ==
    /\ pc = "loop" /\ generation > 1
    /\ initial_mutation_rate # FZero
    /\ current_mutation_rate = Half(Half(initial_mutation_rate))

\* two activities, one room that fits both, one time slot, one facilitator
\* preferred by both, population_size = 4
SingletonRun ==
    /\ Len(catalog.activities) = 2 /\ Len(catalog.rooms) = 1
    /\ Len(catalog.times) = 1 /\ Len(catalog.facilitators) = 1
    /\ \A i \in 1..2 :
          /\ catalog.rooms[1].capacity >= catalog.activities[i].enrollment
          /\ catalog.facilitators[1] \in catalog.activities[i].preferred_facilitators
    /\ population_size = 4

\* the one schedule the singleton catalogs admit, scored
OnlyCandidate ==
    Scored(Schedule(CHOOSE items \in random_schedule(catalog, TRUE) : TRUE), catalog)

\* C2: in the singleton scenario every candidate of every generation is the
\* same schedule with the same fitness, the mean-fitness history is constant,
\* and the run stops at generation index 100 by the convergence check, never
\* by an error.
C2_SingletonScenario ==
    (Running /\ SingletonRun) =>
        /\ pc # "raised" /\ error = NoError
        /\ Len(population) = 4
        /\ \A i \in DOMAIN population : population[i] = OnlyCandidate
        /\ \A i \in DOMAIN avg_fitness_history :
              avg_fitness_history[i] = avg_fitness_history[1]
        /\ generation <= 100
        /\ Len(avg_fitness_history) > 100 => pc = "returned"

C2_Witness ==
    /\ Running /\ SingletonRun
    /\ pc = "returned" /\ generation = 100 /\ Len(avg_fitness_history) = 101

\* C3: when the convergence check at a generation index >= 100 finds the
\* mean stored 100 entries back to be exactly 0, the driver raises no
\* arithmetic fault: it continues or stops in Converged.
C3_ZeroMeanDefended ==
    (/\ Running /\ generation >= ConvergenceStart
     /\ Len(avg_fitness_history) = generation + 1
     /\ FromEnd(avg_fitness_history, Lookback) = FZero)
    => (pc \in {"loop", "returned"} /\ error # ZeroDivisionError)

\* C4: a run with population_size < 2 raises a configuration error before a
\* population is initialized or a generation step runs.
C4_FailsFast ==
    (Running /\ population_size < 2) =>
        (pc = "raised" /\ error = "ConfigurationError" /\ population = <<>>)

\* the fields among room, time and facilitator in which two items differ
Differing(a, b) == {f \in {"room", "time", "facilitator"} : a[f] # b[f]}

CrossoverCalled == pc = "called" /\ call.op = "crossover"

\* C5: for parents of equal length n in the same activity order and every
\* cut point c in 0..n, the child has length n, takes item i from the first
\* parent for i <= c (0-based: i < c) and from the second otherwise, and
\* carries activity i at position i.
C5_CrossoverSplices ==
    CrossoverCalled =>
        LET n == Len(call.first.items)
            c == call.crossover_point
        IN  /\ Len(ret.items) = n
            /\ \A i \in 1..n :
                  /\ ret.items[i] = IF i <= c THEN call.first.items[i] ELSE call.second.items[i]
                  /\ ret.items[i].activity = catalog.activities[i].name

\* a cut strictly inside parents that differ at every position
C5_Witness ==
    /\ CrossoverCalled
    /\ call.crossover_point \in 1..(Len(call.first.items) - 1)
    /\ \A i \in DOMAIN call.first.items : call.first.items[i] # call.second.items[i]

MutateCalled == pc = "called" /\ call.op = "mutate"

\* C6 as stated: with rate 1.0 every item keeps its activity and differs from
\* the input item in exactly one of room, time and facilitator.
C6_ExactlyOneFieldAltered ==
    (MutateCalled /\ call.rate = FromInt(1)) =>
        \A i \in DOMAIN ret.items :
            /\ ret.items[i].activity = call.schedule.items[i].activity
            /\ Cardinality(Differing(ret.items[i], call.schedule.items[i])) = 1

\* the catalog list that mutate draws from for a mutation type
CatalogOf(cat, mutation_type) ==
    IF mutation_type = "room" THEN Range(RoomNames(cat))
    ELSE IF mutation_type = "time" THEN Range(cat.times)
    ELSE Range(cat.facilitators)

\* C6 amended: with rate 1.0 every item keeps its activity and has exactly
\* one of room, time and facilitator redrawn from its catalog; the drawn value
\* may be the old one, so at most one field differs from the input item.
C6_OneFieldRedrawn ==
    (MutateCalled /\ call.rate = FromInt(1)) =>
        /\ Len(ret.items) = Len(call.schedule.items)
        /\ \A i \in DOMAIN ret.items :
            LET old == call.schedule.items[i]
                d   == call.draws[i]
            IN  /\ ret.items[i].activity = old.activity
                /\ d.value \in CatalogOf(catalog, d.mutation_type)
                /\ ret.items[i] = [old EXCEPT ![d.mutation_type] = d.value]
                /\ Cardinality(Differing(ret.items[i], old)) <= 1

\* rate 1.0 and every item altered in exactly one field
C6_Witness ==
    /\ MutateCalled /\ call.rate = FromInt(1)
    /\ \A i \in DOMAIN ret.items :
          Cardinality(Differing(ret.items[i], call.schedule.items[i])) = 1

WellFormed(items, cat) ==
    /\ Len(items) = Len(cat.activities)
    /\ \A i \in DOMAIN items : items[i].activity = cat.activities[i].name

\* C7: every schedule of the initial population and of the population after
\* every generation has exactly one item per activity of the catalog, in the
\* catalog's order.
C7_SchedulesWellFormed ==
    Running => \A i \in DOMAIN population : WellFormed(population[i].items, catalog)

\* a generation has produced two different children
C7_Witness ==
    /\ pc = "loop" /\ generation >= 1 /\ Len(population) = 2
    /\ population[1].items # population[2].items

FitnessCalled == pc = "called" /\ call.op = "calculate_fitness"

Pair(item) == <<item.time, item.room>>

\* the adjustments other than the room/time collision penalty
OtherTerms(items, cat) ==
    LET NotCollision(a) == a[1] # "room_time"
    IN  SelectSeq(Adjustments(items, cat), NotCollision)

\* the room/time collision penalties, in hundredths
RECURSIVE SumOf(_)
SumOf(adj) == IF adj = <<>> THEN 0 ELSE Head(adj)[2] + SumOf(Tail(adj))

CollisionTerm(items, cat) ==
    LET IsCollision(a) == a[1] = "room_time"
    IN  SumOf(SelectSeq(Adjustments(items, cat), IsCollision))

\* item call.index shares its pair in call.items, has a pair of its own in
\* call.moved, and every other score term is the same in both
MovedOffCollision ==
    /\ \E j \in DOMAIN call.items :
          j # call.index /\ Pair(call.items[j]) = Pair(call.items[call.index])
    /\ \A j \in DOMAIN call.moved :
          j # call.index => Pair(call.moved[j]) # Pair(call.moved[call.index])
    /\ OtherTerms(call.items, catalog) = OtherTerms(call.moved, catalog)

CollisionTermExact(items, cat) ==
    CollisionTerm(items, cat)
        = (0 - 50) * (Len(items) - Cardinality({Pair(items[i]) : i \in DOMAIN items}))

\* C8 as stated: the schedule with the shared pair scores exactly 0.5 less
\* than the one with the item moved to a pair of its own, and the collision
\* term is -0.5 * (items - distinct pairs).
C8_CollisionPenaltyExact ==
    FitnessCalled =>
        /\ CollisionTermExact(call.items, catalog)
        /\ MovedOffCollision => ret[1] = FSub(ret[2], Lit(50))

\* C8 amended: the collision term is -0.5 * (items - distinct pairs), and the
\* two schedules' adjustments differ in that term by exactly 0.5 and in
\* nothing else; the float scores are the binary64 accumulations of these
\* adjustments and lie within 2^-40 of each other plus 0.5.
C8_CollisionTerm ==
    FitnessCalled =>
        /\ CollisionTermExact(call.items, catalog)
        /\ CollisionTermExact(call.moved, catalog)
        /\ MovedOffCollision =>
              /\ CollisionTerm(call.items, catalog) = CollisionTerm(call.moved, catalog) - 50
              /\ SumOf(Adjustments(call.items, catalog))
                    = SumOf(Adjustments(call.moved, catalog)) - 50
              /\ FLess(FAbs(FSub(FSub(ret[2], ret[1]), Lit(50))), <<1, -92, Pow2(25), 0>>)

\* a move off a collision whose float scores do not differ by exactly 0.5
C8_Witness ==
    /\ FitnessCalled /\ MovedOffCollision
    /\ ret[1] # FSub(ret[2], Lit(50))

\* C9 as stated: below generation index 100 the loop always continues; from
\* index 100 on the driver converges exactly when the relative improvement of
\* the mean over the last 100 entries is below 0.01 and otherwise increments
\* the index and repeats.
C9_StopsOnlyByConvergence ==
    [][(pc = "loop" /\ population_size >= 2) =>
         IF generation < ConvergenceStart
         THEN pc' = "loop" /\ generation' = generation + 1
         ELSE IF /\ FromEnd(avg_fitness_history', Lookback) # FZero
                 /\ FLess(Improvement(avg_fitness_history'), Lit(1))
         THEN pc' = "returned" /\ generation' = generation
         ELSE pc' = "loop" /\ generation' = generation + 1]_vars

====
